---- MODULE Spec2Model ----
(***************************************************************************)
(* Model of the "mini cloud drive" service of src/r.py: the Item table    *)
(* (parent-pointer namespace), the Share table (capability tokens), the   *)
(* blob area, and one action per HTTP handler.                            *)
(***************************************************************************)
EXTENDS Integers, FiniteSets, Sequences, TLC

\* ---------------------------------------------------------------- bounds
MaxItems == 3          \* ids handed out by generate_id() in one run
MaxShares == 2         \* tokens handed out by uuid4().hex in one run
MaxTime == 2           \* ticks of datetime.utcnow() (unit: one day)
ShareItems == 2        \* ids handed out in the runs of SpecShare, SpecExpiry
ExpiryTokens == 1      \* tokens handed out in the runs of SpecExpiry

\* ------------------------------------------------------------- constants
Null == 0              \* parent_id / storage_path NULL
NoExpiry == 99         \* expires_at NULL
NoToken == 0           \* request without ?token=
NoUser == "anon"       \* request without X-User header
NoName == ""           \* request without a name, or with an empty one

Users == {"demo", "bob"}          \* user names that may appear in X-User
Callers == Users \cup {NoUser}
Names == {"a", "B"}               \* item names supplied by callers
ExpiresDays == {-1, 0, 1}         \* expires_days payload values (0: falsy)

Ids == 1..MaxItems
Tokens == 1..MaxShares

VARIABLES users, items, blobs, shares, nextId, nextToken, now, last, reqs,
          call

vars == <<users, items, blobs, shares, nextId, nextToken, now, last, reqs,
          call>>

\* ------------------------------------------------------------ rows
\* class FileItem
FileItem(name, parent, isdir, path, owner) ==
    [name |-> name, parent_id |-> parent, is_directory |-> isdir,
     storage_path |-> path, owner_id |-> owner]

\* class Share
Share(item, token, exp) ==
    [item_id |-> item, token |-> token, expires_at |-> exp]

\* the last handler that ran and how it ended: "ok" or the error kind of the
\* response; when it committed, the row and the token it acted on and the
\* rows it removed
Done(op, res, id, token, gone) ==
    [op |-> op, res |-> res, id |-> id, token |-> token, gone |-> gone]

Resp(op, res, id, token) == Done(op, res, id, token, {})

\* requests served at the same time by threads of the server: what a
\* thread keeps between two of its database or disk accesses.  Flask serves
\* each request with a session of its own; nothing reaches the tables
\* before db.session.commit().
MaxReqs == 2
Slots == 1..MaxReqs

Idle == [op |-> "idle", pc |-> "idle", c |-> NoUser, x |-> Null, d |-> Null,
         old |-> Null, cur |-> [id |-> Null], stack |-> <<>>, marked |-> {},
         flushed |-> FALSE, res |-> "none", conc |-> {}]

\* the file server of src/fastapi_webserver.py: the rel_path its safe_path
\* was called with, as the components between the slashes, and what the
\* call gave ("none": not called yet)
NoCall == [rel_path |-> <<>>, status |-> "none", final |-> <<>>]

\* ------------------------------------------------------------ queries
Exists(it, id) == id \in DOMAIN it

\* FileItem.query.filter_by(parent_id=id).all()
Children(it, id) == {c \in DOMAIN it : it[c].parent_id = id}

\* FileItem.query.filter_by(owner_id=u, parent_id=None, is_directory=True)
Roots(it, u) ==
    {r \in DOMAIN it : it[r].owner_id = u /\ it[r].parent_id = Null
                       /\ it[r].is_directory}

\* the lookup of the parent without the owner filter
OwnedDirAnyOwner(it, u, p) == Exists(it, p) /\ it[p].is_directory

\* FileItem.query.filter_by(owner_id=u, id=p, is_directory=True).first()
OwnedDir(it, u, p) ==
    Exists(it, p) /\ it[p].owner_id = u /\ it[p].is_directory

\* the lookup of the item without the owner filter
OwnedAnyOwner(it, u, x) == Exists(it, x)

\* FileItem.query.filter_by(id=x, owner_id=u).first()
Owned(it, u, x) == Exists(it, x) /\ it[x].owner_id = u

\* require_simple_auth(): the X-User header names a registered user
Authenticated(c) == c \in users

\* ------------------------------------------------------------ Init
Init ==
    /\ users = {"demo"}
    /\ items = (1 :> FileItem("root", Null, TRUE, Null, "demo"))
    /\ blobs = {}
    /\ shares = {}
    /\ nextId = 2
    /\ nextToken = 1
    /\ now = 0
    /\ last = Resp("init", "ok", Null, NoToken)
    /\ reqs = [r \in Slots |-> Idle]
    /\ call = NoCall

\* ------------------------------------------------------------ register
api_register(u) ==
    /\ u \in Users
    /\ IF u \in users
       THEN /\ last' = Resp("register", "exists", Null, NoToken)
            /\ UNCHANGED <<users, items, nextId>>
       ELSE /\ nextId <= MaxItems
            /\ users' = users \cup {u}
            /\ items' = items @@ (nextId :> FileItem("root", Null, TRUE, Null, u))
            /\ nextId' = nextId + 1
            /\ last' = Resp("register", "ok", nextId, NoToken)
    /\ UNCHANGED <<blobs, shares, nextToken, now, reqs, call>>

\* ------------------------------------------------------------ list
\* the bytes of the names that occur in the model, as SQLite stores them
Bytes(name) ==
    CASE name = "a" -> <<97>>
      [] name = "B" -> <<66>>
      [] name = "root" -> <<114, 111, 111, 116>>
      [] name = "New Folder" -> <<78, 101, 119, 32, 70, 111, 108, 100, 101, 114>>

\* the comparison of the default (BINARY) collation: the first byte that
\* differs decides, a proper prefix comes first
BinaryLess(s, t) ==
    \/ \E i \in 1..Len(s) :
          /\ i <= Len(t) /\ s[i] < t[i]
          /\ \A j \in 1..(i - 1) : s[j] = t[j]
    \/ Len(s) < Len(t) /\ \A j \in 1..Len(s) : s[j] = t[j]

\* line 442: order_by(FileItem.is_directory.desc(), FileItem.name) puts row
\* x before row y
ListedBefore(it, x, y) ==
    \/ it[x].is_directory /\ ~it[y].is_directory
    \/ /\ it[x].is_directory = it[y].is_directory
       /\ BinaryLess(Bytes(it[x].name), Bytes(it[y].name))

\* lines 442-453: the item lists api_list may answer for parent p (rows with
\* equal keys come in either order)
Listings(it, p) ==
    {l \in [1..Cardinality(Children(it, p)) -> Children(it, p)] :
        /\ \A i, j \in DOMAIN l : i # j => l[i] # l[j]
        /\ \A i, j \in DOMAIN l : i < j => ~ListedBefore(it, l[j], l[i])}

\* api_list: without parent_id the caller's root is looked up and created
\* when missing; with parent_id the children are listed as they are.
api_list(c, p) ==
    /\ p \in Ids \cup {Null}
    /\ IF p = Null
       THEN IF c = NoUser \/ c \notin users
            THEN /\ last' = Resp("list", "auth_required", Null, NoToken)
                 /\ UNCHANGED <<items, nextId>>
            ELSE IF Roots(items, c) # {}
                 THEN /\ \E r \in Roots(items, c) :
                            last' = Resp("list", "ok", r, NoToken)
                      /\ UNCHANGED <<items, nextId>>
                 ELSE /\ nextId <= MaxItems
                      /\ items' = items @@
                            (nextId :> FileItem("root", Null, TRUE, Null, c))
                      /\ nextId' = nextId + 1
                      /\ last' = Resp("list", "ok", nextId, NoToken)
       ELSE /\ last' = Resp("list", "ok", p, NoToken)
            /\ UNCHANGED <<items, nextId>>
    /\ UNCHANGED <<users, blobs, shares, nextToken, now, reqs, call>>

\* ------------------------------------------------------------ mkdir
\* line 462: name = payload.get("name") or "New Folder"
FolderName(name) == IF name = NoName THEN "New Folder" ELSE name

api_mkdir(c, p, name) ==
    /\ p \in Ids \cup {Null}
    /\ IF ~Authenticated(c)
       THEN /\ last' = Resp("mkdir", "unauthorized", Null, NoToken)
            /\ UNCHANGED <<items, nextId>>
       ELSE IF ~OwnedDir(items, c, p)
       THEN /\ last' = Resp("mkdir", "parent_not_found", Null, NoToken)
            /\ UNCHANGED <<items, nextId>>
       ELSE /\ nextId <= MaxItems
            /\ items' = items @@ (nextId :> FileItem(FolderName(name), p, TRUE, Null, c))
            /\ nextId' = nextId + 1
            /\ last' = Resp("mkdir", "ok", nextId, NoToken)
    /\ UNCHANGED <<users, blobs, shares, nextToken, now, reqs, call>>

\* ------------------------------------------------------------ upload
\* The stored name uuid4().hex + "_" + filename is a fresh handle; the id
\* of the new row stands for it.  The request carries a file; name is what
\* secure_filename returns.
api_upload(c, p, name) ==
    /\ p \in Ids \cup {Null}
    /\ IF ~Authenticated(c)
       THEN /\ last' = Resp("upload", "unauthorized", Null, NoToken)
            /\ UNCHANGED <<items, blobs, nextId>>
       ELSE IF ~OwnedDir(items, c, p)
       THEN /\ last' = Resp("upload", "parent_not_found", Null, NoToken)
            /\ UNCHANGED <<items, blobs, nextId>>
       ELSE IF name = NoName
       THEN /\ last' = Resp("upload", "empty_filename", Null, NoToken)
            /\ UNCHANGED <<items, blobs, nextId>>
       ELSE /\ nextId <= MaxItems
            /\ blobs' = blobs \cup {nextId}
            /\ items' = items @@ (nextId :> FileItem(name, p, FALSE, nextId, c))
            /\ nextId' = nextId + 1
            /\ last' = Resp("upload", "ok", nextId, NoToken)
    /\ UNCHANGED <<users, shares, nextToken, now, reqs, call>>

\* ------------------------------------------------------------ download
\* the lookup of the share row for (token, item_id)
\* a lookup of the share by its token alone
ShareForAnyItem(t, x) == {s \in shares : s.token = t}

ShareFor(t, x) == {s \in shares : s.token = t /\ s.item_id = x}

\* the expiry comparison turned around
ExpiredWrongWay(s) == s.expires_at # NoExpiry /\ s.expires_at > now

\* line 518
Expired(s) == s.expires_at # NoExpiry /\ s.expires_at < now

\* lines 527-531: what is served once access has been granted
Serve(x) ==
    IF items[x].is_directory THEN "is_dir"
    ELSE IF items[x].storage_path = Null \/ items[x].storage_path \notin blobs
    THEN "file_missing"
    ELSE "ok"

DownloadResult(c, t, x) ==
    IF ~Exists(items, x) THEN "not_found"
    ELSE IF t # NoToken
    THEN IF ShareFor(t, x) = {} THEN "share_not_found"
         ELSE IF \E s \in ShareFor(t, x) : Expired(s) THEN "expired"
         ELSE Serve(x)
    ELSE IF c = NoUser THEN "auth_required"
    ELSE IF c \notin users \/ c # items[x].owner_id THEN "forbidden"
    ELSE Serve(x)

api_download(c, t, x) ==
    /\ last' = Resp("download", DownloadResult(c, t, x),
                     IF DownloadResult(c, t, x) = "ok" THEN x ELSE Null, NoToken)
    /\ UNCHANGED <<users, items, blobs, shares,
                 nextId, nextToken, now, reqs, call>>

\* ------------------------------------------------------------ move
\* lines 549-553: the walk from the destination towards the root.  "hit":
\* the walk met the moved item; "clear": the query for the next parent
\* returned no row; "hang": the walk came back to a row it had already
\* visited, so the while loop never ends.
\* a guard that compares the destination alone with the moved item
WalkUpSelfOnly(it, cur, target, seen) ==
    IF cur = Null \/ ~Exists(it, cur) THEN "clear"
    ELSE IF cur = target THEN "hit"
    ELSE "clear"

RECURSIVE WalkUp(_, _, _, _)
WalkUp(it, cur, target, seen) ==
    IF cur = Null \/ ~Exists(it, cur) THEN "clear"
    ELSE IF cur = target THEN "hit"
    ELSE IF cur \in seen THEN "hang"
    ELSE WalkUp(it, it[cur].parent_id, target, seen \cup {cur})

\* lines 537-557: how api_move ends for caller c, item x, destination p.
\* "crash": root is None and root.id raises AttributeError.
MoveResult(c, x, p) ==
    IF ~Authenticated(c) THEN "unauthorized"
    ELSE IF ~Owned(items, c, x) THEN "not_found"
    ELSE IF p # Null
    THEN IF ~OwnedDir(items, c, p) THEN "parent_not_found"
         ELSE IF WalkUp(items, p, x, {}) = "hit" THEN "invalid_move"
         ELSE IF WalkUp(items, p, x, {}) = "hang" THEN "hang"
         ELSE "ok"
    ELSE IF Roots(items, c) = {} THEN "crash"
    ELSE "ok"

api_move(c, x, p) ==
    /\ x \in Ids /\ p \in Ids \cup {Null}
    /\ IF MoveResult(c, x, p) = "ok"
       THEN \E d \in (IF p # Null THEN {p} ELSE Roots(items, c)) :
               /\ items' = [items EXCEPT ![x].parent_id = d]
               /\ last' = Resp("move", "ok", x, NoToken)
       ELSE /\ last' = Resp("move", MoveResult(c, x, p), Null, NoToken)
            /\ UNCHANGED items
    /\ UNCHANGED <<users, blobs, shares, nextId, nextToken, now, reqs, call>>

\* ------------------------------------------------------------ rename
api_rename(c, x, name) ==
    /\ x \in Ids
    /\ IF ~Authenticated(c)
       THEN /\ last' = Resp("rename", "unauthorized", Null, NoToken)
            /\ UNCHANGED items
       ELSE IF name = NoName
       THEN /\ last' = Resp("rename", "missing_name", Null, NoToken)
            /\ UNCHANGED items
       ELSE IF ~Owned(items, c, x)
       THEN /\ last' = Resp("rename", "not_found", Null, NoToken)
            /\ UNCHANGED items
       ELSE /\ items' = [items EXCEPT ![x].name = name]
            /\ last' = Resp("rename", "ok", x, NoToken)
    /\ UNCHANGED <<users, blobs, shares, nextId, nextToken, now, reqs, call>>

\* ------------------------------------------------------------ delete
\* the rows _delete_recursive(x) visits: x and everything found below it
\* by repeated filter_by(parent_id=...)
RECURSIVE Reach(_, _)
Reach(it, S) ==
    LET T == S \cup UNION {Children(it, y) : y \in S}
    IN IF T = S THEN S ELSE Reach(it, T)

\* a delete that stops at the children of x
SubtreeOneLevel(it, x) == {x} \cup Children(it, x)

\* a delete that takes the rows beside x along with it
SubtreeAndSiblings(it, x) ==
    Reach(it, {x}) \cup {y \in DOMAIN it : it[y].parent_id = it[x].parent_id}

Subtree(it, x) == Reach(it, {x})

\* _delete_recursive never returns when a visited row is found again among
\* the rows below it (RecursionError)
RecursesForever(it, x) ==
    \E y \in Subtree(it, x) : y \in Reach(it, Children(it, y))

\* blobs of the files among the rows in S that exist on disk
BlobsOf(it, S) ==
    {it[y].storage_path : y \in {z \in S : ~it[z].is_directory
                                          /\ it[z].storage_path # Null}}
        \cap blobs

api_delete(c, x) ==
    /\ x \in Ids
    /\ IF ~Authenticated(c)
       THEN /\ last' = Resp("delete", "unauthorized", Null, NoToken)
            /\ UNCHANGED <<items, blobs>>
       ELSE IF ~Owned(items, c, x)
       THEN /\ last' = Resp("delete", "not_found", Null, NoToken)
            /\ UNCHANGED <<items, blobs>>
       ELSE IF RecursesForever(items, x)
       THEN \* blobs reached before the RecursionError are gone, the
            \* session is rolled back
            /\ \E removed \in SUBSET BlobsOf(items, Subtree(items, x)) :
                   blobs' = blobs \ removed
            /\ last' = Resp("delete", "crash", Null, NoToken)
            /\ UNCHANGED items
       ELSE \* os.remove may fail for any of the blobs
            /\ \E failed \in SUBSET BlobsOf(items, Subtree(items, x)) :
                   blobs' = blobs \ (BlobsOf(items, Subtree(items, x)) \ failed)
            /\ items' = [y \in DOMAIN items \ Subtree(items, x) |-> items[y]]
            /\ last' = Done("delete", "ok", x, NoToken, Subtree(items, x))
    /\ UNCHANGED <<users, shares, nextId, nextToken, now, reqs, call>>

\* ------------------------------------------------------------ share
\* lines 614-620: expires_days that is falsy leaves expires_at NULL
ExpiresAt(days) == IF days # 0 THEN now + days ELSE NoExpiry

api_share_create(c, x, days) ==
    /\ x \in Ids
    /\ IF ~Authenticated(c)
       THEN /\ last' = Resp("share", "unauthorized", Null, NoToken)
            /\ UNCHANGED <<shares, nextToken>>
       ELSE IF ~Owned(items, c, x)
       THEN /\ last' = Resp("share", "not_found", Null, NoToken)
            /\ UNCHANGED <<shares, nextToken>>
       ELSE /\ nextToken <= MaxShares
            /\ shares' = shares \cup {Share(x, nextToken, ExpiresAt(days))}
            /\ nextToken' = nextToken + 1
            /\ last' = Resp("share", "ok", x, nextToken)
    /\ UNCHANGED <<users, items, blobs, nextId, now, reqs, call>>

\* a revocation that removes every share of the item
RevokedAllOfItem(s) == {r \in shares : r.item_id = s.item_id}

\* a revocation that answers ok and leaves the row in the table
RevokedNone(s) == {}

\* line 638: db.session.delete(share) removes that one row
Revoked(s) == {s}

\* a revocation that is refused only when the item of the share is there
\* and belongs to somebody else
api_share_cancel_lenient(c, t) ==
    /\ IF ~Authenticated(c)
       THEN /\ last' = Resp("unshare", "unauthorized", Null, NoToken)
            /\ UNCHANGED shares
       ELSE IF t = NoToken
       THEN /\ last' = Resp("unshare", "missing", Null, NoToken)
            /\ UNCHANGED shares
       ELSE IF ~\E s \in shares : s.token = t
       THEN /\ last' = Resp("unshare", "not_found", Null, NoToken)
            /\ UNCHANGED shares
       ELSE \E s \in {r \in shares : r.token = t} :
            IF Exists(items, s.item_id) /\ items[s.item_id].owner_id # c
            THEN /\ last' = Resp("unshare", "forbidden", Null, NoToken)
                 /\ UNCHANGED shares
            ELSE /\ shares' = shares \ Revoked(s)
                 /\ last' = Resp("unshare", "ok", s.item_id, t)
    /\ UNCHANGED <<users, items, blobs, nextId, nextToken, now, reqs, call>>

api_share_cancel(c, t) ==
    /\ IF ~Authenticated(c)
       THEN /\ last' = Resp("unshare", "unauthorized", Null, NoToken)
            /\ UNCHANGED shares
       ELSE IF t = NoToken
       THEN /\ last' = Resp("unshare", "missing", Null, NoToken)
            /\ UNCHANGED shares
       ELSE IF ~\E s \in shares : s.token = t
       THEN /\ last' = Resp("unshare", "not_found", Null, NoToken)
            /\ UNCHANGED shares
       ELSE \E s \in {r \in shares : r.token = t} :
            IF ~Exists(items, s.item_id) \/ items[s.item_id].owner_id # c
            THEN /\ last' = Resp("unshare", "forbidden", Null, NoToken)
                 /\ UNCHANGED shares
            ELSE /\ shares' = shares \ Revoked(s)
                 /\ last' = Resp("unshare", "ok", s.item_id, t)
    /\ UNCHANGED <<users, items, blobs, nextId, nextToken, now, reqs, call>>

\* ------------------------------------------------------------ shares
\* lines 649-654: the entry appended for share s of an item named name
ShareEntry(s, name) ==
    [token |-> s.token, item_id |-> s.item_id, name |-> name,
     expires_at |-> s.expires_at]

\* a listing that looks the item up by id alone
SharesResultAnyOwner(c) ==
    {ShareEntry(s, items[s.item_id].name) :
        s \in {r \in shares : Exists(items, r.item_id)}}

\* lines 644-655: the entries api_list_shares answers to user c: one for
\* every Share row whose item is found by filter_by(id=..., owner_id=c)
SharesResult(c) ==
    {ShareEntry(s, items[s.item_id].name) :
        s \in {r \in shares : Owned(items, c, r.item_id)}}

api_list_shares(c) ==
    /\ last' = Resp("shares", IF Authenticated(c) THEN "ok" ELSE "unauthorized",
                     Null, NoToken)
    /\ UNCHANGED <<users, items, blobs, shares,
                 nextId, nextToken, now, reqs, call>>

\* ------------------------------------------------------------ clock
\* datetime.utcnow() advances between requests
Tick ==
    /\ now < MaxTime
    /\ now' = now + 1
    /\ last' = Resp("tick", "ok", Null, NoToken)
    /\ UNCHANGED <<users, items, blobs, shares, nextId, nextToken, reqs, call>>

\* ------------------------------------------------- requests in flight
\* the requests between their first read and their answer
InFlight == {r \in Slots : reqs[r].pc \notin {"idle", "done"}}

\* a request is taken by the first thread that is waiting for one; its
\* answer is kept in reqs[r].res until it has been sent
FreeSlot(r) ==
    /\ reqs[r].pc = "idle"
    /\ \A q \in Slots : q < r => reqs[q].pc # "idle"

\* SQLite lets one connection write at a time: a session that has flushed
\* a statement holds the write lock until it commits or is rolled back
LockedByOther(r) == \E q \in Slots \ {r} : reqs[q].flushed

\* what is left of a request once it has been answered with res
Finished(q, res) ==
    [Idle EXCEPT !.op = q.op, !.pc = "done", !.c = q.c, !.x = q.x,
                 !.d = q.d, !.old = q.old, !.res = res, !.conc = q.conc]

\* api_move, lines 537-557: the lookups, the walk, and the assignment
\* item.parent_id = ... in the session; old is the parent_id loaded with
\* the item
move_begin(r, c, x, p) ==
    /\ FreeSlot(r)
    /\ x \in Ids /\ p \in Ids \cup {Null}
    /\ IF MoveResult(c, x, p) = "ok"
       THEN /\ \E d \in (IF p # Null THEN {p} ELSE Roots(items, c)) :
                  reqs' = [reqs EXCEPT ![r] =
                             [Idle EXCEPT !.op = "move", !.pc = "commit",
                                          !.c = c, !.x = x, !.d = d,
                                          !.old = items[x].parent_id,
                                          !.conc = InFlight \ {r}]]
       ELSE reqs' = [reqs EXCEPT ![r] =
               Finished([Idle EXCEPT !.op = "move", !.c = c, !.x = x],
                        MoveResult(c, x, p))]
    /\ UNCHANGED <<users, items, blobs, shares,
                 nextId, nextToken, now, last, call>>

\* the UPDATE ... WHERE id = x of a commit that finds no row to update
\* passes unnoticed
MoveFlushUnchecked(it, x, d, old) ==
    IF d = old \/ x \notin DOMAIN it THEN [items |-> it, res |-> "ok"]
    ELSE [items |-> [it EXCEPT ![x].parent_id = d], res |-> "ok"]

\* line 558, db.session.commit(): no statement when the attribute has the
\* value it was loaded with; else UPDATE items SET parent_id = d WHERE
\* id = x, and the session raises StaleDataError when no row matches
MoveFlush(it, x, d, old) ==
    IF d = old THEN [items |-> it, res |-> "ok"]
    ELSE IF x \in DOMAIN it
    THEN [items |-> [it EXCEPT ![x].parent_id = d], res |-> "ok"]
    ELSE [items |-> it, res |-> "stale"]

move_commit(r) ==
    /\ reqs[r].op = "move" /\ reqs[r].pc = "commit"
    /\ ~LockedByOther(r)
    /\ LET f == MoveFlush(items, reqs[r].x, reqs[r].d, reqs[r].old)
       IN /\ items' = f.items
          /\ reqs' = [reqs EXCEPT ![r] = Finished(reqs[r], f.res)]
    /\ UNCHANGED <<users, blobs, shares, nextId, nextToken, now, last, call>>

\* api_delete, lines 582-586: the lookup of the item
Loaded(it, y) ==
    [id |-> y, is_directory |-> it[y].is_directory,
     storage_path |-> it[y].storage_path]

delete_begin(r, c, x) ==
    /\ FreeSlot(r)
    /\ x \in Ids
    /\ reqs' = [reqs EXCEPT ![r] =
          IF ~Authenticated(c)
          THEN Finished([Idle EXCEPT !.op = "delete", !.c = c, !.x = x],
                        "unauthorized")
          ELSE IF ~Owned(items, c, x)
          THEN Finished([Idle EXCEPT !.op = "delete", !.c = c, !.x = x],
                        "not_found")
          ELSE [Idle EXCEPT !.op = "delete", !.pc = "query", !.c = c, !.x = x,
                            !.cur = Loaded(items, x),
                            !.conc = InFlight \ {r}]]
    /\ UNCHANGED <<users, items, blobs, shares,
                 nextId, nextToken, now, last, call>>

\* the rows that are on the call stack of _delete_recursive
OnStack(st) == {st[i].node.id : i \in DOMAIN st}

\* a call that removes the row of a frame without descending into the
\* children its query found
ContinueSkipKids(q, st) ==
    IF st = <<>>
    THEN {[q EXCEPT !.stack = st, !.pc = "commit", !.cur = Idle.cur]}
    ELSE {[q EXCEPT !.stack = st, !.pc = "remove", !.cur = Idle.cur]}

\* the call goes on with the first child left in the frame on top of the
\* stack, or with the removal of that frame's row when none is left
Continue(q, st) ==
    IF st = <<>>
    THEN {[q EXCEPT !.stack = st, !.pc = "commit", !.cur = Idle.cur]}
    ELSE IF st[Len(st)].kids = {}
    THEN {[q EXCEPT !.stack = st, !.pc = "remove", !.cur = Idle.cur]}
    ELSE {[q EXCEPT !.stack = [st EXCEPT ![Len(st)].kids = @ \ {k}],
                    !.cur = k, !.pc = "query"] : k \in st[Len(st)].kids}

\* line 589: children = FileItem.query.filter_by(parent_id=node.id).all().
\* The query first flushes the rows the session has deleted so far, which
\* takes the write lock, and does not return them.  A row found again
\* while it is on the call stack is descended into until RecursionError.
delete_query(r) ==
    /\ reqs[r].op = "delete" /\ reqs[r].pc = "query"
    /\ (reqs[r].marked # {} /\ ~reqs[r].flushed) => ~LockedByOther(r)
    /\ IF reqs[r].cur.id \in OnStack(reqs[r].stack)
       THEN reqs' = [reqs EXCEPT ![r] = Finished(reqs[r], "crash")]
       ELSE \E q \in Continue(
                   [reqs[r] EXCEPT !.flushed = reqs[r].marked # {}],
                   Append(reqs[r].stack,
                          [node |-> reqs[r].cur,
                           kids |-> {Loaded(items, y) :
                                       y \in Children(items, reqs[r].cur.id)
                                              \ reqs[r].marked}])) :
                   reqs' = [reqs EXCEPT ![r] = q]
    /\ UNCHANGED <<users, items, blobs, shares,
                 nextId, nextToken, now, last, call>>

\* a delete that is written to the table row by row
AfterMarkAutocommit(it, y) == [z \in DOMAIN it \ {y} |-> it[z]]

\* line 597: db.session.delete(node) marks the row in the session; the
\* table is as it was
AfterMark(it, y) == it

\* lines 592-597: the blob of a file is removed (os.remove may fail), the
\* row is marked, and the call returns to its caller
delete_remove(r) ==
    /\ reqs[r].op = "delete" /\ reqs[r].pc = "remove"
    /\ LET st == reqs[r].stack
           n == st[Len(st)].node
       IN /\ IF ~n.is_directory /\ n.storage_path # Null
                 /\ n.storage_path \in blobs
             THEN blobs' \in {blobs \ {n.storage_path}, blobs}
             ELSE blobs' = blobs
          /\ items' = AfterMark(items, n.id)
          /\ \E q \in Continue([reqs[r] EXCEPT !.marked = @ \cup {n.id}],
                                SubSeq(st, 1, Len(st) - 1)) :
                reqs' = [reqs EXCEPT ![r] = q]
    /\ UNCHANGED <<users, shares, nextId, nextToken, now, last, call>>

\* line 599, db.session.commit(): DELETE ... WHERE id = y for every marked
\* row; a row that is no longer there is passed over with a warning
delete_commit(r) ==
    /\ reqs[r].op = "delete" /\ reqs[r].pc = "commit"
    /\ ~LockedByOther(r)
    /\ items' = [y \in DOMAIN items \ reqs[r].marked |-> items[y]]
    /\ reqs' = [reqs EXCEPT ![r] = Finished(reqs[r], "ok")]
    /\ UNCHANGED <<users, blobs, shares, nextId, nextToken, now, last, call>>

\* the thread or the process fails while the request is in flight: the
\* session is never committed and SQLite rolls its transaction back
delete_crash(r) ==
    /\ reqs[r].op = "delete" /\ reqs[r].pc \in {"query", "remove", "commit"}
    /\ reqs' = [reqs EXCEPT ![r] = Finished(reqs[r], "crash")]
    /\ UNCHANGED <<users, items, blobs, shares,
                 nextId, nextToken, now, last, call>>

\* the answer has been sent and the thread takes the next request
respond(r) ==
    /\ reqs[r].pc = "done"
    /\ reqs' = [q \in Slots |->
                  IF q = r THEN Idle
                  ELSE [reqs[q] EXCEPT !.conc = reqs[q].conc \ {r}]]
    /\ UNCHANGED <<users, items, blobs, shares,
                 nextId, nextToken, now, last, call>>

Next ==
    \/ \E u \in Users : api_register(u)
    \/ \E c \in Callers, p \in Ids \cup {Null} : api_list(c, p)
    \/ \E c \in Callers, p \in Ids \cup {Null}, n \in Names : api_mkdir(c, p, n)
    \/ \E c \in Callers, p \in Ids \cup {Null}, n \in Names \cup {NoName} :
          api_upload(c, p, n)
    \/ \E c \in Callers, t \in Tokens \cup {NoToken}, x \in Ids : api_download(c, t, x)
    \/ \E c \in Callers, x \in Ids, p \in Ids \cup {Null} : api_move(c, x, p)
    \/ \E c \in Callers, x \in Ids, n \in Names \cup {NoName} :
          api_rename(c, x, n)
    \/ \E c \in Callers, x \in Ids : api_delete(c, x)
    \/ \E c \in Callers, x \in Ids, d \in ExpiresDays : api_share_create(c, x, d)
    \/ \E c \in Callers, t \in Tokens \cup {NoToken} : api_share_cancel(c, t)
    \/ \E c \in Callers : api_list_shares(c)
    \/ Tick

Spec == Init /\ [][Next]_vars

\* The namespace handlers alone: the share table and the clock stay as they
\* are initially.
NextTree ==
    \/ \E u \in Users : api_register(u)
    \/ \E c \in Callers, p \in Ids \cup {Null} : api_list(c, p)
    \/ \E c \in Callers, p \in Ids \cup {Null}, n \in Names : api_mkdir(c, p, n)
    \/ \E c \in Callers, p \in Ids \cup {Null}, n \in Names \cup {NoName} :
          api_upload(c, p, n)
    \/ \E c \in Callers, x \in Ids, p \in Ids \cup {Null} : api_move(c, x, p)
    \/ \E c \in Callers, x \in Ids, n \in Names \cup {NoName} :
          api_rename(c, x, n)
    \/ \E c \in Callers, x \in Ids : api_delete(c, x)

SpecTree == Init /\ [][NextTree]_vars

\* Namespaces of at most ShareItems rows, for the runs about share tokens.
ShareIds == 1..ShareItems
ShareNames == {"a"}
CapItems == nextId' <= ShareItems + 1

\* All handlers with the clock stopped: up to MaxShares tokens.
NextShare ==
    \/ \E u \in Users : api_register(u) /\ CapItems
    \/ \E c \in Callers, p \in ShareIds \cup {Null} : api_list(c, p) /\ CapItems
    \/ \E c \in Callers, p \in ShareIds, n \in ShareNames :
          api_mkdir(c, p, n) /\ CapItems
    \/ \E c \in Callers, p \in ShareIds, n \in ShareNames :
          api_upload(c, p, n) /\ CapItems
    \/ \E c \in Callers, t \in Tokens \cup {NoToken}, x \in ShareIds :
          api_download(c, t, x)
    \/ \E c \in Callers, x \in ShareIds, p \in ShareIds \cup {Null} :
          api_move(c, x, p)
    \/ \E c \in Callers, x \in ShareIds, n \in ShareNames : api_rename(c, x, n)
    \/ \E c \in Callers, x \in ShareIds : api_delete(c, x)
    \/ \E c \in Callers, x \in ShareIds, d \in ExpiresDays :
          api_share_create(c, x, d)
    \/ \E c \in Callers, t \in Tokens \cup {NoToken} : api_share_cancel(c, t)
    \/ \E c \in Callers : api_list_shares(c)

SpecShare == Init /\ [][NextShare]_vars

\* All handlers and the clock, up to ExpiryTokens tokens.
NextExpiry ==
    \/ \E u \in Users : api_register(u) /\ CapItems
    \/ \E c \in Callers, p \in ShareIds \cup {Null} : api_list(c, p) /\ CapItems
    \/ \E c \in Callers, p \in ShareIds, n \in ShareNames :
          api_mkdir(c, p, n) /\ CapItems
    \/ \E c \in Callers, p \in ShareIds, n \in ShareNames :
          api_upload(c, p, n) /\ CapItems
    \/ \E c \in Callers, t \in 1..ExpiryTokens \cup {NoToken}, x \in ShareIds :
          api_download(c, t, x)
    \/ \E c \in Callers, x \in ShareIds, p \in ShareIds \cup {Null} :
          api_move(c, x, p)
    \/ \E c \in Callers, x \in ShareIds, n \in ShareNames : api_rename(c, x, n)
    \/ \E c \in Callers, x \in ShareIds : api_delete(c, x)
    \/ \E c \in Callers, x \in ShareIds, d \in ExpiresDays :
          api_share_create(c, x, d) /\ nextToken' <= ExpiryTokens + 1
    \/ \E c \in Callers, t \in 1..ExpiryTokens \cup {NoToken} :
          api_share_cancel(c, t)
    \/ \E c \in Callers : api_list_shares(c)
    \/ Tick

SpecExpiry == Init /\ [][NextExpiry]_vars

\* ------------------------------------------------------------ safe_path
\* src/fastapi_webserver.py.  A path is the sequence of its components, the
\* pieces between the slashes: "/a" is <<"", "a">>, "" is <<"">>.
MaxPathLen == 3
Comps == {"", ".", "..", "a", "uploads-x"}
RelPaths == UNION {[1..n -> Comps] : n \in 1..MaxPathLen}

\* line 7: BASE_DIR = "uploads"; the directory the server was started in
BASE_DIR == <<"uploads">>
Cwd == <<"srv">>

\* the characters of the names that occur
Text(comp) ==
    CASE comp = "a" -> <<"a">>
      [] comp = ".." -> <<".", ".">>
      [] comp = "srv" -> <<"s", "r", "v">>
      [] comp = "uploads" -> <<"u", "p", "l", "o", "a", "d", "s">>
      [] comp = "uploads-x" -> <<"u", "p", "l", "o", "a", "d", "s", "-", "x">>

\* the path starts with a slash
Rooted(comps) == Len(comps) >= 2 /\ comps[1] = ""

\* the loop of posixpath.normpath over the components: empty ones and "."
\* are dropped, ".." removes the component before it, is dropped at the
\* root, and is kept at the start of a relative path
RECURSIVE Collapse(_, _, _)
Collapse(comps, new, rooted) ==
    IF comps = <<>> THEN new
    ELSE IF Head(comps) \in {"", "."} THEN Collapse(Tail(comps), new, rooted)
    ELSE IF \/ Head(comps) # ".."
            \/ ~rooted /\ new = <<>>
            \/ new # <<>> /\ new[Len(new)] = ".."
    THEN Collapse(Tail(comps), Append(new, Head(comps)), rooted)
    ELSE IF new # <<>>
    THEN Collapse(Tail(comps), SubSeq(new, 1, Len(new) - 1), rooted)
    ELSE Collapse(Tail(comps), new, rooted)

\* lines 23-26: rel_path or ".", normpath, split("/") without "" and "."
Parts(rel_path) == Collapse(rel_path, <<>>, Rooted(rel_path))

\* os.path.abspath of a relative path: normpath(join(getcwd(), path)),
\* as the components after the leading slash
Abspath(comps) == Collapse(Cwd \o comps, <<>>, TRUE)

\* the absolute path as a string, character by character
RECURSIVE Str(_)
Str(comps) ==
    IF comps = <<>> THEN <<>>
    ELSE <<"/">> \o Text(Head(comps)) \o Str(Tail(comps))

\* line 30: final.startswith(base_abs), on the strings
StartsWith(final, base) ==
    /\ Len(Str(final)) >= Len(Str(base))
    /\ SubSeq(Str(final), 1, Len(Str(base))) = Str(base)

\* lines 22-32
safe_path(rel_path) ==
    LET final == Abspath(BASE_DIR \o Parts(rel_path))
        base_abs == Abspath(BASE_DIR)
    IN IF ~StartsWith(final, base_abs)
       THEN [status |-> "Invalid path", final |-> <<>>]
       ELSE [status |-> "ok", final |-> final]

\* a request handler calls safe_path with the path it was given
safe_path_call ==
    /\ call.status = "none"
    /\ call' = [rel_path |-> call.rel_path,
                status |-> safe_path(call.rel_path).status,
                final |-> safe_path(call.rel_path).final]
    /\ UNCHANGED <<users, items, blobs, shares, nextId, nextToken, now, last,
                   reqs>>

\* every rel_path of up to MaxPathLen components, then the call
InitPath ==
    /\ users = {} /\ items = <<>> /\ blobs = {} /\ shares = {}
    /\ nextId = 1 /\ nextToken = 1 /\ now = 0
    /\ last = Resp("init", "ok", Null, NoToken)
    /\ reqs = [r \in Slots |-> Idle]
    /\ call \in {[rel_path |-> p, status |-> "none", final |-> <<>>] :
                    p \in RelPaths}

NextPath == safe_path_call

SpecPath == InitPath /\ [][NextPath]_vars

\* Requests served at the same time: up to MaxReqs moves and deletes of one
\* user in flight, one delete at a time, their database and disk accesses
\* interleaved in every order; mkdir and upload build the tree and wait
\* while another session holds the write lock.
RaceCallers == {"demo"}
NoLock == \A q \in Slots : ~reqs[q].flushed
OneDelete == \A q \in Slots : reqs[q].op = "delete" => reqs[q].pc = "done"

NextRace ==
    \/ \E c \in RaceCallers, p \in Ids \cup {Null}, n \in ShareNames :
          api_mkdir(c, p, n) /\ NoLock
    \/ \E c \in RaceCallers, p \in Ids \cup {Null}, n \in ShareNames :
          api_upload(c, p, n) /\ NoLock
    \/ \E r \in Slots, c \in RaceCallers, x \in Ids, p \in Ids \cup {Null} :
          move_begin(r, c, x, p)
    \/ \E r \in Slots : move_commit(r)
    \/ \E r \in Slots, c \in RaceCallers, x \in Ids :
          delete_begin(r, c, x) /\ OneDelete
    \/ \E r \in Slots : delete_query(r)
    \/ \E r \in Slots : delete_remove(r)
    \/ \E r \in Slots : delete_commit(r)
    \/ \E r \in Slots : delete_crash(r)
    \/ \E r \in Slots : respond(r)

SpecRace == Init /\ [][NextRace]_vars

\* One request at a time, the delete step by step: the queries, the
\* removals and the commit of _delete_recursive in the order the call makes
\* them, on the trees mkdir, upload and move build between the calls.
Quiet == InFlight = {}

NextOrder ==
    \/ \E c \in RaceCallers, p \in Ids \cup {Null}, n \in Names :
          api_mkdir(c, p, n) /\ Quiet
    \/ \E c \in RaceCallers, p \in Ids \cup {Null}, n \in Names :
          api_upload(c, p, n) /\ Quiet
    \/ \E c \in RaceCallers, x \in Ids, p \in Ids \cup {Null} :
          api_move(c, x, p) /\ Quiet
    \/ \E r \in Slots, c \in RaceCallers, x \in Ids :
          delete_begin(r, c, x) /\ Quiet
    \/ \E r \in Slots : delete_query(r)
    \/ \E r \in Slots : delete_remove(r)
    \/ \E r \in Slots : delete_commit(r)
    \/ \E r \in Slots : delete_crash(r)
    \/ \E r \in Slots : respond(r)

SpecOrder == Init /\ [][NextOrder]_vars

\* ================================================================ claims
\* the rows met by following parent_id upwards from the rows of S
RECURSIVE Up(_, _)
Up(it, S) ==
    LET T == S \cup ({it[y].parent_id : y \in S \cap DOMAIN it} \ {Null})
    IN IF T = S THEN S ELSE Up(it, T)

\* the proper ancestors of x: its parent, the parent's parent, ...
Ancestors(it, x) ==
    IF x \in DOMAIN it THEN Up(it, {it[x].parent_id} \ {Null}) ELSE {}

Descendants(it, x) == {y \in DOMAIN it : x \in Ancestors(it, y)}

\* the walk from x upwards ends at a null-parent row without revisiting one
ReachesRoot(it, x) ==
    \A y \in {x} \cup Ancestors(it, x) : y \in DOMAIN it /\ y \notin Ancestors(it, y)

\* C1: in every reachable state the parent_id graph is a forest: from every
\* item the walk along parent_id reaches a null-parent item without
\* revisiting an item (no item is its own ancestor or its own parent).
C1_Forest == \A x \in DOMAIN items : ReachesRoot(items, x)

\* C2: when move(A, owner, B) with a non-null destination B succeeds, the
\* walk from B up to a null-parent item does not visit A in the state before
\* the move, and A is not its own ancestor in the state after it.
C2_MoveNoCycle ==
    [][(last'.op = "move" /\ last'.res = "ok")
       => \A c \in Callers, b \in Ids :
             api_move(c, last'.id, b)
             => /\ ReachesRoot(items, b)
                /\ last'.id \notin {b} \cup Ancestors(items, b)
                /\ last'.id \notin Ancestors(items', last'.id)]_vars

\* a move under a directory that is not a root has succeeded
C2_Witness ==
    /\ last.op = "move" /\ last.res = "ok"
    /\ ReachesRoot(items, last.id)
    /\ Cardinality(Ancestors(items, last.id)) >= 2

\* C3 (as claimed): move(A, owner, T) with T = A or T any descendant of A,
\* file or directory, ends with invalid_move.
C3_SelfOrDescendantInvalid ==
    \A c \in Callers, a \in Ids, t \in Ids :
        (/\ Authenticated(c) /\ Owned(items, c, a)
         /\ t \in {a} \cup Descendants(items, a))
        => MoveResult(c, a, t) = "invalid_move"

\* C3 (amended): move(A, owner, T) with T a directory that is A or a
\* descendant of A ends with invalid_move; with T a file that is A or a
\* descendant of A it ends with parent_not_found.
C3_DirSelfOrDescendantInvalid ==
    \A c \in Callers, a \in Ids, t \in Ids :
        (/\ Authenticated(c) /\ Owned(items, c, a)
         /\ t \in {a} \cup Descendants(items, a))
        => MoveResult(c, a, t) = IF items[t].is_directory THEN "invalid_move"
                                 ELSE "parent_not_found"

\* a move into a directory below the moved item was refused as invalid_move
C3_Witness ==
    /\ last.op = "move" /\ last.res = "invalid_move"
    /\ \E a, t \in DOMAIN items :
          /\ t \in Descendants(items, a) /\ items[t].is_directory
          /\ MoveResult(items[a].owner_id, a, t) = "invalid_move"

\* C4: after delete(X, owner) succeeds on a directory X, neither X nor any
\* row of X's subtree is in the table and no remaining row has a parent_id
\* naming a removed row, also when the removal of blobs failed.
C4_DeleteLeavesNoResidue ==
    [][(/\ last'.op = "delete" /\ last'.res = "ok"
        /\ last'.id \in DOMAIN items /\ items[last'.id].is_directory)
       => LET D == {last'.id} \cup Descendants(items, last'.id)
          IN /\ DOMAIN items' \cap D = {}
             /\ \A y \in DOMAIN items' : items'[y].parent_id \notin D]_vars

\* a delete of several rows has succeeded although the blob of one of the
\* removed files is still on disk
C4_Witness ==
    /\ last.op = "delete" /\ last.res = "ok"
    /\ Cardinality(last.gone) >= 2
    /\ last.gone \cap blobs # {}

\* C5: delete of an owner's root directory is rejected for every caller and
\* the rows stay as they were.
C5_RootDeleteRejected ==
    [][\A c \in Callers, x \in Ids :
          (/\ x \in DOMAIN items /\ items[x].parent_id = Null
           /\ items[x].is_directory
           /\ api_delete(c, x))
          => last'.res # "ok" /\ items' = items]_vars

\* C6: every registered owner has exactly one null-parent row, a directory,
\* and it is the same row in the next state.
C6_OneRootForever ==
    [][\A u \in users :
          /\ Cardinality(Roots(items, u)) = 1
          /\ {r \in DOMAIN items : items[r].owner_id = u
                                   /\ items[r].parent_id = Null} = Roots(items, u)
          /\ Roots(items', u) = Roots(items, u)]_vars

\* C7: every row with a non-null parent_id names an existing row that is a
\* directory of the same owner.
C7_ParentIsOwnDirectory ==
    \A x \in DOMAIN items :
        items[x].parent_id # Null
        => /\ items[x].parent_id \in DOMAIN items
           /\ items[items[x].parent_id].is_directory
           /\ items[items[x].parent_id].owner_id = items[x].owner_id

\* two owners have rows, one of them below a root, and an attach under a
\* directory that is not the caller's own was just refused
C7_Witness ==
    /\ \E x, y \in DOMAIN items : items[x].owner_id # items[y].owner_id
    /\ \E x \in DOMAIN items : items[x].parent_id # Null
    /\ last.op \in {"mkdir", "upload", "move"} /\ last.res = "parent_not_found"

\* the download got past the access checks of lines 510-526
Accepted(res) == res \in {"ok", "is_dir", "file_missing"}

\* C8: a share whose expires_at is set and lies before the current time is
\* refused by download of its item, whoever the caller is.
C8_ExpiredTokenRejected ==
    \A s \in shares :
        (s.expires_at # NoExpiry /\ s.expires_at < now)
        => \A c \in Callers : ~Accepted(DownloadResult(c, s.token, s.item_id))

\* a download with a token issued for a later day was refused as expired
C8_Witness ==
    /\ last.op = "download" /\ last.res = "expired"
    /\ \E s \in shares : s.expires_at >= 1 /\ s.expires_at < now

\* C9: right after issue(X, owner, ttl) has succeeded, for every ttl it takes,
\* download of X with the returned token and no X-User header is accepted
\* and serves X.
C9_IssueThenValidate ==
    (last.op = "share" /\ last.res = "ok")
    => /\ Accepted(DownloadResult(NoUser, last.token, last.id))
       /\ \E s \in shares : s.token = last.token /\ s.item_id = last.id

\* C10: a share stays in the table, with its item_id and expires_at, until
\* it is revoked itself; while it is there and not expired, download with
\* it is accepted whenever its item exists and is not_found when its item
\* has been deleted.
C10_ShareStaysValid ==
    /\ [](\A s \in shares :
            IF s.item_id \in DOMAIN items
            THEN (s.expires_at # NoExpiry /\ s.expires_at < now)
                 \/ Accepted(DownloadResult(NoUser, s.token, s.item_id))
            ELSE DownloadResult(NoUser, s.token, s.item_id) = "not_found")
    /\ [][\A s \in shares :
            \/ s \in shares'
            \/ last'.op = "unshare" /\ last'.res = "ok"
               /\ last'.token = s.token]_vars

\* one token has been revoked, another is still in the table although its
\* item has been deleted, and a download of that item ended not_found
C10_Witness ==
    /\ last.op = "download" /\ last.res = "not_found"
    /\ Cardinality(shares) < nextToken - 1
    /\ \E s \in shares : /\ s.item_id \notin DOMAIN items
                         /\ s.expires_at = NoExpiry

\* the token has been handed out and no row of the share table carries it
Gone(sh, next, t) == t < next /\ ~\E s \in sh : s.token = t

\* C11: right after unshare of a token has succeeded no row carries it; a
\* handed-out token that no row carries is carried by no row in the next
\* state either (share never issues it again), and download with it is
\* refused for every caller and every item.
C11_RevokedStaysInvalid ==
    /\ []((last.op = "unshare" /\ last.res = "ok")
            => Gone(shares, nextToken, last.token))
    /\ [](\A t \in Tokens :
            Gone(shares, nextToken, t)
            => \A c \in Callers, x \in Ids :
                  ~Accepted(DownloadResult(c, t, x)))
    /\ [][\A t \in Tokens :
            Gone(shares, nextToken, t) => Gone(shares', nextToken', t)]_vars

\* a token was revoked, a token issued after it is in the table for an
\* existing item, and a download with a token that names no row was refused
C11_Witness ==
    /\ last.op = "download" /\ last.res = "share_not_found"
    /\ \E t \in Tokens, s \in shares :
          /\ Gone(shares, nextToken, t) /\ s.token > t
          /\ s.item_id \in DOMAIN items

\* the name with its upper-case letters turned into lower-case ones
Lower(b) == [i \in DOMAIN b |-> IF b[i] \in 65..90 THEN b[i] + 32 ELSE b[i]]

\* C12: in every list api_list answers for a parent, all directories come
\* before all files, and within each group no item comes after one whose
\* name is greater when compared without regard to case.
C12_ListCaseInsensitive ==
    \A p \in DOMAIN items : \A l \in Listings(items, p) :
        \A i, j \in DOMAIN l :
            i < j =>
              /\ items[l[i]].is_directory \/ ~items[l[j]].is_directory
              /\ items[l[i]].is_directory = items[l[j]].is_directory
                 => ~BinaryLess(Lower(Bytes(items[l[j]].name)),
                                Lower(Bytes(items[l[i]].name)))

\* C13: for every registered user the entries of api_list_shares are those
\* of the Share rows whose item exists and belongs to that user, one entry
\* per row with the item's present name; rows of deleted items and of other
\* users' items have no entry, and every row is read without an error.
C13_SharesOfOwnExistingItems ==
    \A u \in users :
        /\ {e.token : e \in SharesResult(u)} =
               {s.token : s \in {r \in shares :
                    /\ r.item_id \in DOMAIN items
                    /\ items[r.item_id].owner_id = u}}
        /\ \A e \in SharesResult(u) :
               /\ e.item_id \in DOMAIN items
               /\ e.name = items[e.item_id].name
               /\ \E s \in shares : /\ s.token = e.token
                                     /\ s.item_id = e.item_id
                                     /\ s.expires_at = e.expires_at
        /\ \A s \in shares :
               s.item_id \notin DOMAIN items
               => \A e \in SharesResult(u) : e.token # s.token

\* the shares were listed while one row names a deleted item, one
\* registered user gets an entry and another registered user gets none
C13_Witness ==
    /\ last.op = "shares" /\ last.res = "ok"
    /\ \E s \in shares : s.item_id \notin DOMAIN items
    /\ \E u \in users : SharesResult(u) # {}
    /\ \E u \in users : SharesResult(u) = {}

\* C14: no entry of api_list_shares is for a share whose expires_at is set
\* and lies before the current time (one that download refuses as expired).
C14_SharesListActiveOnly ==
    \A u \in users : \A e \in SharesResult(u) :
        /\ ~(e.expires_at # NoExpiry /\ e.expires_at < now)
        /\ DownloadResult(NoUser, e.token, e.item_id) # "expired"

\* the handlers that write to the Item or the Share table
Mutating == {"mkdir", "upload", "move", "rename", "delete", "share", "unshare"}

\* the step is the answer last' of one of those handlers to caller c
InvokedBy(c) ==
    CASE last'.op = "mkdir" ->
           \E p \in Ids \cup {Null}, n \in Names : api_mkdir(c, p, n)
      [] last'.op = "upload" ->
           \E p \in Ids \cup {Null}, n \in Names : api_upload(c, p, n)
      [] last'.op = "move" ->
           \E p \in Ids \cup {Null} : api_move(c, last'.id, p)
      [] last'.op = "rename" -> \E n \in Names : api_rename(c, last'.id, n)
      [] last'.op = "delete" -> api_delete(c, last'.id)
      [] last'.op = "share" ->
           \E d \in ExpiresDays : api_share_create(c, last'.id, d)
      [] last'.op = "unshare" -> api_share_cancel(c, last'.token)
      [] OTHER -> FALSE

\* C15: a mutating handler that answers with an error leaves the Item and
\* the Share table as they were; one that answers ok to caller P acted on a
\* row of P, left every row of another user as it was, created rows of P
\* only, and added or removed a share only for an item of P.  Share tokens
\* are no input of these handlers, so holding one changes nothing.
C15_OthersRecordsUntouched ==
    [][last'.op \in Mutating =>
         IF last'.res # "ok"
         THEN items' = items /\ shares' = shares
         ELSE \A c \in Callers :
                InvokedBy(c) =>
                  /\ c \in users
                  /\ last'.id \in DOMAIN items
                     => items[last'.id].owner_id = c
                  /\ last'.id \in DOMAIN items'
                     => items'[last'.id].owner_id = c
                  /\ \A y \in DOMAIN items :
                        items[y].owner_id # c
                        => y \in DOMAIN items' /\ items'[y] = items[y]
                  /\ \A y \in DOMAIN items' \ DOMAIN items :
                        items'[y].owner_id = c
                  /\ \A s \in (shares \ shares') \cup (shares' \ shares) :
                        Owned(items, c, s.item_id)]_vars

\* two users have rows, every share is for an existing item, and an
\* unshare was refused as forbidden: the caller was not the item's owner
C15_Witness ==
    /\ last.op = "unshare" /\ last.res = "forbidden"
    /\ shares # {}
    /\ \A s \in shares : s.item_id \in DOMAIN items
    /\ \E x, y \in DOMAIN items : items[x].owner_id # items[y].owner_id

\* C16: download of a directory with a share of it that has not expired,
\* without X-User header, is answered ok (with the directory's children)
\* and not refused because the item is a directory.
C16_TokenListsDirectory ==
    \A s \in shares :
        (/\ s.item_id \in DOMAIN items /\ items[s.item_id].is_directory
         /\ ~(s.expires_at # NoExpiry /\ s.expires_at < now))
        => DownloadResult(NoUser, s.token, s.item_id) = "ok"

\* C17: move(I, owner, null) never ends in the unhandled AttributeError, and
\* when it answers ok the parent_id of I is the id of a row that, after the
\* move, is a null-parent directory of the caller.
C17_NullMoveGoesToRoot ==
    [][last'.op = "move" =>
         \A c \in Callers, x \in Ids :
            api_move(c, x, Null) =>
              /\ last'.res # "crash"
              /\ last'.res = "ok" => items'[x].parent_id \in Roots(items', c)]_vars

\* the blobs that no file row names
Orphans(it, bl) ==
    {b \in bl : ~\E y \in DOMAIN it : ~it[y].is_directory /\ it[y].storage_path = b}

\* C18: every file row has a storage_path that names an existing blob and no
\* two rows have the same storage_path; a blob that no row names any more
\* is left only by a delete whose os.remove failed for it, so a delete
\* without such a failure leaves no blob of a deleted file.
C18_OneBlobPerFile ==
    /\ [](\A x \in DOMAIN items :
            ~items[x].is_directory
            => /\ items[x].storage_path \in blobs
               /\ \A y \in DOMAIN items \ {x} :
                     items[y].storage_path # items[x].storage_path)
    /\ [][\A b \in Orphans(items', blobs') \ Orphans(items, blobs) :
            /\ last'.op = "delete" /\ last'.res = "ok"
            /\ \E y \in last'.gone : items[y].storage_path = b]_vars

\* requests q and r were in flight at the same time
Concurrent(q, r) == q \in reqs[r].conc \/ r \in reqs[q].conc

\* C19: of a delete of X and a move of X from its parent to another row Y
\* that were in flight at the same time, at most one is answered ok.
C19_DeleteMoveNotBothOk ==
    \A q, r \in Slots :
        (/\ reqs[q].op = "delete" /\ reqs[q].pc = "done"
         /\ reqs[r].op = "move" /\ reqs[r].pc = "done"
         /\ reqs[q].x = reqs[r].x
         /\ reqs[r].d \notin {reqs[r].x, reqs[r].old}
         /\ Concurrent(q, r))
        => ~(reqs[q].res = "ok" /\ reqs[r].res = "ok")

\* the delete in slot r has looked up its item and has not been answered
Deleting(r) ==
    reqs[r].op = "delete" /\ reqs[r].pc \in {"query", "remove", "commit"}

\* C20: a delete takes no row out of the table before its commit: while it
\* is in flight every row it has marked is still there; a step that ends
\* it with a failure leaves the table as it is, and the step that ends it
\* with ok removes X and all the rows it has marked at once and changes no
\* other row.
C20_DeleteAllOrNothing ==
    /\ [](\A r \in Slots : Deleting(r) => reqs[r].marked \subseteq DOMAIN items)
    /\ [][\A r \in Slots :
            (Deleting(r) /\ reqs'[r] # reqs[r]) =>
               IF reqs'[r].pc = "done" /\ reqs'[r].res = "ok"
               THEN /\ reqs[r].x \in reqs[r].marked
                    /\ DOMAIN items' = DOMAIN items \ reqs[r].marked
                    /\ \A y \in DOMAIN items' : items'[y] = items[y]
               ELSE items' = items]_vars

\* a delete failed after it had removed the blob of a file below X: the
\* rows are all still in the table
C20_Witness ==
    /\ \E r \in Slots : /\ reqs[r].op = "delete" /\ reqs[r].pc = "done"
                         /\ reqs[r].res = "crash"
                         /\ reqs[r].x \in DOMAIN items
                         /\ items[reqs[r].x].is_directory
                         /\ reqs[r].x \notin Ancestors(items, reqs[r].x)
    /\ \E y \in DOMAIN items : /\ ~items[y].is_directory
                                /\ items[y].storage_path \notin blobs

\* C21: whichever way a delete of a directory below the root is
\* interleaved with mkdir, upload and move requests that attach a row below
\* that directory, every parent_id in the table names a row that is in the
\* table (the root itself stays, so the missing row is not the root).
C21_NoDanglingParent ==
    \A y \in DOMAIN items :
        (items[y].parent_id # Null /\ Roots(items, items[y].owner_id) # {})
        => items[y].parent_id \in DOMAIN items

\* C22: in every reachable state the walk of every move from its
\* destination towards the root comes to an end, and so does the descent of
\* every delete over the children of its item.
C22_WalkAndDescentTerminate ==
    \A c \in Callers, x \in Ids :
        /\ \A p \in Ids : MoveResult(c, x, p) # "hang"
        /\ (Authenticated(c) /\ Owned(items, c, x))
           => ~RecursesForever(items, x)

\* C23: whenever safe_path returns a path, that path is the root directory
\* (the absolute BASE_DIR) or lies below it, component by component: never
\* in a directory beside the root whose name begins with the root's name.
C23_SafePathStaysInRoot ==
    call.status = "ok"
    => /\ Len(call.final) >= Len(Abspath(BASE_DIR))
       /\ SubSeq(call.final, 1, Len(Abspath(BASE_DIR))) = Abspath(BASE_DIR)

\* C24: every mkdir, upload, move, rename, delete, share or unshare call that
\* does not end ok leaves the item rows, the share rows and the blobs exactly
\* as they were before the call.
C24_FailedCallChangesNothing ==
    [][(last'.op \in Mutating /\ last'.res # "ok")
       => (items' = items /\ shares' = shares /\ blobs' = blobs)]_vars

\* C25: in the recursive delete of X a row is removed (and the blob of a
\* file with it, no other blob) only when every row below it has been
\* removed and none of the rows it was found under has: descendants come
\* before their parent in the sequence of removals, and X comes last.
C25_DescendantsRemovedFirst ==
    [][\A r \in Slots :
          (/\ reqs[r].op = "delete" /\ reqs[r].pc = "remove"
           /\ reqs'[r].pc \in {"query", "remove", "commit"}
           /\ reqs'[r].stack # reqs[r].stack)
          => LET st == reqs[r].stack
                 n == st[Len(st)].node.id
             IN /\ n \notin reqs[r].marked
                /\ reqs'[r].marked = reqs[r].marked \cup {n}
                /\ Descendants(items, n) \subseteq reqs[r].marked
                /\ OnStack(SubSeq(st, 1, Len(st) - 1)) \cap reqs'[r].marked = {}
                /\ reqs'[r].pc = "commit" <=> n = reqs[r].x
                /\ blobs \ blobs' \subseteq {items[n].storage_path}]_vars

\* C25 happens: a directory below the root with a row of its own below it
\* has been removed, child first, and the delete is about to commit.
C25_Witness ==
    \E r \in Slots :
        /\ reqs[r].op = "delete" /\ reqs[r].pc = "commit"
        /\ reqs[r].x \in DOMAIN items /\ items[reqs[r].x].parent_id # Null
        /\ Descendants(items, reqs[r].x) # {}
        /\ reqs[r].marked = {reqs[r].x} \cup Descendants(items, reqs[r].x)

\* C26: a delete of X that succeeds removes exactly X and the rows below X:
\* every other row, of this or another owner, is in the table afterwards
\* with all its fields as before, and every blob that is gone is the blob
\* of a removed file.
C26_DeleteTouchesOnlySubtree ==
    [][(last'.op = "delete" /\ last'.res = "ok")
       => LET D == {last'.id} \cup Descendants(items, last'.id)
          IN /\ DOMAIN items' = DOMAIN items \ D
             /\ \A y \in DOMAIN items' : items'[y] = items[y]
             /\ blobs' \subseteq blobs
             /\ blobs \ blobs'
                  \subseteq {items[y].storage_path :
                               y \in {z \in D : ~items[z].is_directory}}]_vars

\* C26 happens: a row has been deleted and a file beside or above it is
\* still in the table with its blob on disk.
C26_Witness ==
    /\ last.op = "delete" /\ last.res = "ok"
    /\ last.gone \cap DOMAIN items = {}
    /\ \E y \in DOMAIN items :
          /\ ~items[y].is_directory
          /\ items[y].storage_path \in blobs

\* C27: a list call with an explicit parent_id made by a caller who is not
\* authenticated, or who does not own a directory with that id, is not
\* answered with the children of that row: it fails or the list is empty.
C27_ListOnlyOwnDirectory ==
    [][last'.op = "list"
       => \A c \in Callers, p \in Ids :
             (/\ ~(Authenticated(c) /\ OwnedDir(items, c, p))
              /\ api_list(c, p))
             => \/ last'.res # "ok"
                \/ \A l \in Listings(items', last'.id) : l = <<>>]_vars

\* C28: a share token opens only the item it was issued for: a download
\* that presents the token of a share of X, without X-User header, for any
\* other id Y (a row below X included) does not get past the access checks.
C28_TokenOpensOnlyItsItem ==
    \A s \in shares : \A y \in Ids \ {s.item_id} :
        /\ ~Accepted(DownloadResult(NoUser, s.token, y))
        /\ y \in DOMAIN items
           => DownloadResult(NoUser, s.token, y) = "share_not_found"

\* C28 happens: the token of a share of a directory that has not expired was
\* presented for a file below that directory whose blob is on disk, and the
\* download was refused.
C28_Witness ==
    /\ last.op = "download" /\ last.res = "share_not_found"
    /\ \E s \in shares : \E y \in Descendants(items, s.item_id) :
          /\ ~Expired(s)
          /\ ~items[y].is_directory /\ items[y].storage_path \in blobs
          /\ ShareFor(s.token, y) = {}
          /\ \A r \in shares : r.item_id # y

\* C29: a share whose item is no longer in the table stays in the share
\* table, and its item stays missing, in every later state: no step removes
\* the share, and unshare of its token is refused, as forbidden for every
\* registered user (the one who owned the item included).
C29_OrphanedShareStays ==
    [][/\ \A s \in shares :
             s.item_id \notin DOMAIN items
             => s \in shares' /\ s.item_id \notin DOMAIN items'
       /\ last'.op = "unshare"
          => \A c \in Callers : \A s \in shares :
                (s.item_id \notin DOMAIN items /\ api_share_cancel(c, s.token))
                => /\ last'.res # "ok"
                   /\ Authenticated(c) => last'.res = "forbidden"]_vars

\* C29 happens: every share in the table is of an item that has been
\* deleted, and unshare of one of them has just been refused as forbidden.
C29_Witness ==
    /\ last.op = "unshare" /\ last.res = "forbidden"
    /\ shares # {}
    /\ \A s \in shares : s.item_id \notin DOMAIN items

\* C30: when two moves of one owner that were in flight together, one of A
\* under B and one of B under A, A and B beside each other under one parent,
\* have both been answered, at most one of them has succeeded and the table
\* does not hold A under B and B under A at once.
C30_SwappedMovesNoCycle ==
    \A q, r \in Slots :
        (/\ q # r /\ Concurrent(q, r)
         /\ reqs[q].op = "move" /\ reqs[q].pc = "done"
         /\ reqs[r].op = "move" /\ reqs[r].pc = "done"
         /\ reqs[q].c = reqs[r].c
         /\ reqs[q].x # reqs[r].x
         /\ reqs[q].x = reqs[r].d /\ reqs[r].x = reqs[q].d
         /\ reqs[q].old = reqs[r].old)
        => /\ ~(reqs[q].res = "ok" /\ reqs[r].res = "ok")
           /\ ~(/\ {reqs[q].x, reqs[r].x} \subseteq DOMAIN items
                /\ items[reqs[q].x].parent_id = reqs[r].x
                /\ items[reqs[r].x].parent_id = reqs[q].x)
====
